---- MODULE Spec2Model ----
(***************************************************************************)
(* Model of the async-curl dispatchers.                                    *)
(*                                                                         *)
(*   CurlActor  (src/src/actor.rs)      worker loop + spawn_blocking thread *)
(*                                       running perform_curl (easy, or the *)
(*                                       multi loop under feature "multi")  *)
(*   AsyncCurl  (src/src/async_curl.rs) worker loop running                 *)
(*                                       perform_curl_multi inline          *)
(*                                                                         *)
(* One behaviour is one Dispatcher (impl, multi fixed in Init) with        *)
(* NCallers callers; caller c owns descriptor c and calls send_request at  *)
(* most once through its own handle (the Dispatcher or a clone), which it  *)
(* drops when the call is over or without calling; callers are numbered in *)
(* the order in which they do so.  tokio's                                 *)
(* mpsc(1) queue, its FIFO permit hand-off and the per-job oneshot reply   *)
(* channels are modelled explicitly; the transfer engine (libcurl) is the  *)
(* environment: every call into it returns one of its possible results.    *)
(***************************************************************************)
EXTENDS Integers, Sequences, FiniteSets, TLC

\* ---------------------------------------------------------------- bounds
NCallers == 3
MaxPolls == 1

\* ------------------------------------------------------ program constants
\* mpsc::channel::<Request<H>>(1)
Capacity == 1

Callers == 1..NCallers

VARIABLES
    impl,       \* "CurlActor" | "AsyncCurl"
    multi,      \* cargo feature "multi" (always TRUE for AsyncCurl)
    pc,         \* caller position inside send_request
    result,     \* what send_request resolved to
    oneshot,    \* per-job reply channel: [tx, rx, val]
    waiters,    \* callers suspended in request_sender.send(), FIFO
    queue,      \* the request queue (mpsc buffer) of Request envelopes
    wpc,        \* worker loop position
    cur,        \* the job the worker loop is handling (0: none)
    job,        \* per job: the Request moved into the code executing it
    epc,        \* per job: position of the code executing its transfer
    polls,      \* per job: advance calls that reported an active transfer
    outcome,    \* per job: value returned by perform_curl[_multi]
    wire,       \* per job: how the transfer ended on the wire
    began,      \* descriptors in the order their execution began
    enq,        \* descriptors in the order their envelopes were enqueued
    late,       \* callers whose send_request started after the worker ended
    active,     \* per job: the count the last multi.perform() reported (-1: none)
    timeout,    \* per job: the local `timeout` of perform_curl's loop body
    slept       \* per job: milliseconds the last sleep() of its loop lasted

vars == <<impl, multi, pc, result, oneshot, waiters, queue, wpc, cur,
          job, epc, polls, outcome, wire, began, enq, late,
          active, timeout, slept>>

\* ----------------------------------------------------------------- values
NoResult == [kind |-> "none"]
Ok(easy2) == [kind |-> "Ok", easy2 |-> easy2]
Err(e) == [kind |-> "Err", err |-> e]

EmptySink == [status |-> 0, body |-> 0]
\* what the target server answers to descriptor d (the mock server's template)
ServerResponse(d) == [status |-> 200, body |-> d]
\* Easy2::new(ResponseHandler::new()) configured by caller d
NewEasy2(d) == [id |-> d, sink |-> EmptySink]

NoRequest == [kind |-> "none"]
\* Request(easy2, oneshot_sender)
Request(easy2, oneshot_sender) ==
    [kind |-> "req", easy2 |-> easy2, oneshot_sender |-> oneshot_sender]

\* oneshot::channel(): both halves live, no value
OneshotChannel == [tx |-> "live", rx |-> "live", val |-> NoResult]
NoChannel == [tx |-> "none", rx |-> "none", val |-> NoResult]

\* ------------------------------------------------- error taxonomy (`?`)
\* From<SendError<Request<H>>>, From<RecvError>, From<curl::Error>,
\* From<MultiError>: the variants the `?` operators convert into
FromSendError == "QueueClosed"
FromRecvError == "ReplyChannelClosed"
FromCurlError == "EngineError"
FromMultiError == "EngineError"

\* ------------------------------------------------------------ the engine
\* multi.perform(): the counts of active transfers it may report for one
\* registered handle that has been polled p times
ActiveCounts(p) == IF p < MaxPolls THEN {0, 1} ELSE {0}

DefaultTimeout == 2000
SleepMillis == 200
WaitCeiling == 1000
\* multi.get_timeout(): Ok(Some(d)), Ok(None), Err(call_perform), Err(other)
TimeoutQueries ==
    {[ok |-> TRUE, some |-> TRUE, d |-> 0, call_perform |-> FALSE],
     [ok |-> TRUE, some |-> TRUE, d |-> 50, call_perform |-> FALSE],
     [ok |-> TRUE, some |-> FALSE, d |-> 0, call_perform |-> FALSE],
     [ok |-> FALSE, some |-> FALSE, d |-> 0, call_perform |-> TRUE],
     [ok |-> FALSE, some |-> FALSE, d |-> 0, call_perform |-> FALSE]}

\* .map(|d| d.unwrap_or_else(|| Duration::from_secs(2))) and the match:
\* the duration, or -1 for `return Err(Error::from(multi_error))`
TimeoutOf(q) ==
    IF q.ok THEN (IF q.some THEN q.d ELSE DefaultTimeout)
    ELSE IF ~q.call_perform THEN -1 ELSE 0

\* ----------------------------------------------------------------- queue
\* the Senders of the request queue: the handle (the Dispatcher or a clone
\* of it) of every caller that has not finished with it
Holders == {c \in Callers : pc[c] \in {"idle", "enqueue", "granted", "await"}}
handles == Cardinality(Holders)

RxClosed == wpc = "terminated"
PermitsHeld == Len(queue) + Cardinality({c \in Callers : pc[c] = "granted"})
\* faulty variant: the queue admits an envelope whatever it already holds
PermitFree_Unbounded == TRUE

PermitFree == PermitsHeld < Capacity

\* a released permit goes to the first suspended sender
Grant(p, ws) == IF ws = <<>> THEN p ELSE [p EXCEPT ![Head(ws)] = "granted"]
Rest(ws) == IF ws = <<>> THEN ws ELSE Tail(ws)
\* faulty variant: a sender that gave up stays registered as a waiter
Without_Keep(ws, c) == ws

\* the waiter list once sender c has left it
Without(ws, c) == SelectSeq(ws, LAMBDA x : x # c)
SeqToSet(s) == {s[i] : i \in 1..Len(s)}

\* dropping a oneshot sender that never sent
DropTx(ch) == IF ch.tx = "live" THEN [ch EXCEPT !.tx = "dropped"] ELSE ch
\* dropping every envelope in a set of jobs' senders
DropSenders(os, ids) == [c \in Callers |-> IF c \in ids THEN DropTx(os[c]) ELSE os[c]]

Init ==
    /\ impl \in {"CurlActor", "AsyncCurl"}
    /\ multi \in BOOLEAN
    /\ (impl = "AsyncCurl") => multi
    /\ pc = [c \in Callers |-> "idle"]
    /\ result = [c \in Callers |-> NoResult]
    /\ oneshot = [c \in Callers |-> NoChannel]
    /\ waiters = <<>>
    /\ queue = <<>>
    /\ wpc = "recv"
    /\ cur = 0
    /\ job = [d \in Callers |-> NoRequest]
    /\ epc = [d \in Callers |-> "idle"]
    /\ polls = [d \in Callers |-> 0]
    /\ outcome = [d \in Callers |-> NoResult]
    /\ wire = [d \in Callers |-> "none"]
    /\ began = <<>>
    /\ enq = <<>>
    /\ late = {}
    /\ active = [d \in Callers |-> -1]
    /\ timeout = [d \in Callers |-> 0]
    /\ slept = [d \in Callers |-> 0]
\* ---------------------------------------------------------------- callers
\* faulty variant: the error of send() is ignored, the call goes on to the reply
SendPoll_IgnoreClosed(closed, free) == IF free THEN "sent" ELSE "suspend"

\* self.request_sender.send(Request(easy2, oneshot_sender)).await, first
\* poll: fails on a closed queue, enqueues with a free permit, else suspends
SendPoll(closed, free) ==
    IF closed THEN "closed" ELSE IF free THEN "sent" ELSE "suspend"

\* send_request up to its first suspension point
SendRequest(c) ==
    /\ pc[c] = "idle"
    /\ \A b \in Callers : b < c => pc[b] # "idle"
    /\ late' = IF RxClosed THEN late \cup {c} ELSE late
    /\ LET r == SendPoll(RxClosed, PermitFree) IN
       /\ r = "closed" =>
            /\ pc' = [pc EXCEPT ![c] = "done"]
            /\ result' = [result EXCEPT ![c] = Err(FromSendError)]
            /\ oneshot' = [oneshot EXCEPT ![c] = [tx |-> "dropped", rx |-> "dropped", val |-> NoResult]]
            /\ UNCHANGED <<queue, waiters, enq>>
       /\ r = "sent" =>
            /\ pc' = [pc EXCEPT ![c] = "await"]
            /\ queue' = Append(queue, Request(NewEasy2(c), c))
            /\ enq' = Append(enq, c)
            /\ oneshot' = [oneshot EXCEPT ![c] = OneshotChannel]
            /\ UNCHANGED <<result, waiters>>
       /\ r = "suspend" =>
            /\ pc' = [pc EXCEPT ![c] = "enqueue"]
            /\ waiters' = Append(waiters, c)
            /\ oneshot' = [oneshot EXCEPT ![c] = OneshotChannel]
            /\ UNCHANGED <<result, queue, enq>>
    /\ UNCHANGED <<impl, multi, wpc, cur, job, epc, polls,
                   outcome, wire, began, active, timeout, slept>>

\* a suspended send() that was handed the permit pushes its envelope
Enqueue(c) ==
    /\ pc[c] = "granted"
    /\ ~RxClosed
    /\ pc' = [pc EXCEPT ![c] = "await"]
    /\ queue' = Append(queue, Request(NewEasy2(c), c))
    /\ enq' = Append(enq, c)
    /\ UNCHANGED <<impl, multi, result, oneshot, waiters, wpc, cur,
                   job, epc, polls, outcome, wire, began, late,
                   active, timeout, slept>>

\* a suspended send() woken by the closing of the queue: `.await?` returns
\* the SendError, the envelope in it is dropped
SendClosed(c) ==
    /\ pc[c] \in {"enqueue", "granted"}
    /\ RxClosed
    /\ pc' = [pc EXCEPT ![c] = "done"]
    /\ result' = [result EXCEPT ![c] = Err(FromSendError)]
    /\ waiters' = Without(waiters, c)
    /\ oneshot' = [oneshot EXCEPT ![c] = [tx |-> "dropped", rx |-> "dropped", val |-> NoResult]]
    /\ UNCHANGED <<impl, multi, queue, wpc, cur, job, epc, polls,
                   outcome, wire, began, enq, late,
                   active, timeout, slept>>

\* faulty variant: the RecvError is not turned into the call's error value
ReplyOf_Unwrap(ch) == IF ch.tx = "sent" THEN ch.val ELSE NoResult

\* oneshot_receiver.await? : the value sent, or RecvError once the sender
\* is gone
ReplyOf(ch) == IF ch.tx = "sent" THEN ch.val ELSE Err(FromRecvError)

AwaitReply(c) ==
    /\ pc[c] = "await"
    /\ oneshot[c].tx \in {"sent", "dropped"}
    /\ pc' = [pc EXCEPT ![c] = "done"]
    /\ result' = [result EXCEPT ![c] = ReplyOf(oneshot[c])]
    /\ oneshot' = [oneshot EXCEPT ![c] = [@ EXCEPT !.rx = "dropped", !.val = NoResult]]
    /\ UNCHANGED <<impl, multi, waiters, queue, wpc, cur, job, epc,
                   polls, outcome, wire, began, enq, late,
                   active, timeout, slept>>

\* the caller drops the future send_request returned before it resolved
DropFuture(c) ==
    /\ pc[c] \in {"enqueue", "granted", "await"}
    /\ pc' = IF pc[c] = "granted" /\ ~RxClosed
             THEN Grant([pc EXCEPT ![c] = "dropped"], waiters)
             ELSE [pc EXCEPT ![c] = "dropped"]
    /\ waiters' = IF pc[c] = "granted" /\ ~RxClosed THEN Rest(waiters)
                  ELSE Without(waiters, c)
    /\ oneshot' = [oneshot EXCEPT ![c] =
                     IF pc[c] = "await"
                     THEN [@ EXCEPT !.rx = "dropped", !.val = NoResult]
                     ELSE [tx |-> "dropped", rx |-> "dropped", val |-> NoResult]]
    /\ UNCHANGED <<impl, multi, result, queue, wpc, cur, job, epc,
                   polls, outcome, wire, began, enq, late,
                   active, timeout, slept>>

\* a caller drops its handle without ever calling send_request
DropHandle(c) ==
    /\ pc[c] = "idle"
    /\ \A b \in Callers : b < c => pc[b] # "idle"
    /\ pc' = [pc EXCEPT ![c] = "gone"]
    /\ UNCHANGED <<impl, multi, result, oneshot, waiters, queue, wpc,
                   cur, job, epc, polls, outcome, wire, began, enq, late,
                   active, timeout, slept>>

\* ------------------------------------------------------------ worker loop
\* faulty variant: the reply goes through the sender of the neighbouring envelope
ReplyChannelOf_Neighbour(req) == (req.oneshot_sender % NCallers) + 1

\* faulty variant: every reply goes through the sender created last
ReplyChannelOf_Last(req) == NCallers

\* the envelope's reply channel: Request(easy2, oneshot_sender)
ReplyChannelOf(req) == req.oneshot_sender

\* faulty variant: the spawn_blocking JoinHandle is not awaited
AfterDequeue_NoJoin(i) == IF i = "CurlActor" THEN "recv" ELSE "perform"

\* where the worker loop is once it has handed the dequeued job over:
\* awaiting the spawn_blocking JoinHandle, or inside perform_curl_multi
AfterDequeue(i) == IF i = "CurlActor" THEN "join" ELSE "perform"

\* while let Some(Request(easy2, oneshot_sender)) = request_receiver.recv().await
WorkerRecv ==
    /\ wpc = "recv"
    /\ queue # <<>>
    /\ LET req == Head(queue)
           d == req.easy2.id
       IN /\ queue' = Tail(queue)
          /\ pc' = Grant(pc, waiters)
          /\ waiters' = Rest(waiters)
          /\ cur' = d
          /\ job' = [job EXCEPT ![d] = req]
          /\ epc' = [epc EXCEPT ![d] = "start"]
          /\ wpc' = AfterDequeue(impl)
    /\ UNCHANGED <<impl, multi, result, oneshot, polls, outcome,
                   wire, began, enq, late,
                   active, timeout, slept>>

\* recv() yields None: every Sender is gone and the queue is empty
WorkerClose ==
    /\ wpc = "recv"
    /\ queue = <<>>
    /\ handles = 0
    /\ wpc' = "terminated"
    /\ UNCHANGED <<impl, multi, pc, result, oneshot, waiters, queue,
                   cur, job, epc, polls, outcome, wire, began, enq, late,
                   active, timeout, slept>>

\* faulty variant: the worker goes on before the closure is over
Joined_Early(e) == TRUE

\* the JoinHandle resolves once the closure has returned or panicked
Joined(e) == e \in {"finished", "panicked"}

\* .await on the JoinHandle: Ok, or Err(JoinError) which is only printed
WorkerJoin ==
    /\ wpc = "join"
    /\ cur # 0
    /\ Joined(epc[cur])
    /\ wpc' = "recv"
    /\ cur' = 0
    /\ UNCHANGED <<impl, multi, pc, result, oneshot, waiters, queue,
                   job, epc, polls, outcome, wire, began, enq, late,
                   active, timeout, slept>>

\* ------------------------------------------- perform_curl[_multi] for job d
\* how a transfer can end on the wire: the server answered, or the
\* transfer failed (host unreachable, port not listening)
WireEnds == {"ok", "failed"}

\* the descriptor once its transfer is over: the engine has written the
\* response into the sink of a transfer that succeeded
Written(easy2, w) ==
    IF w = "ok" THEN [easy2 EXCEPT !.sink = ServerResponse(easy2.id)] ELSE easy2

\* entry of perform_curl / perform_curl_multi; with the multi interface
\* Multi::new() and multi.add2(easy2)?
Begin(d) ==
    /\ epc[d] = "start"
    /\ \E r \in (IF multi THEN {"ok", "err"} ELSE {"ok"}) :
        IF r = "err"
        THEN /\ outcome' = [outcome EXCEPT ![d] = Err(FromMultiError)]
             /\ epc' = [epc EXCEPT ![d] = "ret"]
        ELSE /\ epc' = [epc EXCEPT ![d] = "perform"]
             /\ UNCHANGED outcome
    /\ began' = Append(began, d)
    /\ UNCHANGED <<impl, multi, pc, result, oneshot, waiters, queue,
                   wpc, cur, job, polls, wire, enq, late,
                   active, timeout, slept>>

\* easy2.perform().map_err(Error::from)?; Ok(easy2): the easy interface
\* reports the failure of the transfer as its own error
EasyResult(easy2, w) ==
    IF w = "failed" THEN Err(FromCurlError) ELSE Ok(Written(easy2, w))

EasyPerform(d) ==
    /\ ~multi
    /\ epc[d] = "perform"
    /\ \E w \in WireEnds :
        /\ outcome' = [outcome EXCEPT ![d] = EasyResult(job[d].easy2, w)]
        /\ wire' = [wire EXCEPT ![d] = w]
    /\ epc' = [epc EXCEPT ![d] = "ret"]
    /\ UNCHANGED <<impl, multi, pc, result, oneshot, waiters, queue,
                   wpc, cur, job, polls, began, enq, late,
                   active, timeout, slept>>

\* while multi.perform()? != 0  /  while multi.perform()? > 0
LoopContinues(n) == n > 0
\* faulty variant: the next advance follows at once, without a wait
Between_NoWait(i) == "perform"

\* what follows an advance that left the transfer active
Between(i) == IF i = "CurlActor" THEN "timeout" ELSE "wait"

\* multi.perform()?: an error of the multi stack, or the number of
\* transfers still active; a transfer that is over, failed or not, only
\* lowers that number
MultiPerform(d) ==
    /\ multi
    /\ epc[d] = "perform"
    /\ \/ /\ outcome' = [outcome EXCEPT ![d] = Err(FromMultiError)]
          /\ epc' = [epc EXCEPT ![d] = "ret"]
          /\ UNCHANGED <<polls, wire, job, active>>
       \/ \E n \in ActiveCounts(polls[d]) :
            /\ active' = [active EXCEPT ![d] = n]
            /\ IF LoopContinues(n)
               THEN /\ polls' = [polls EXCEPT ![d] = @ + 1]
                    /\ epc' = [epc EXCEPT ![d] = Between(impl)]
                    /\ UNCHANGED <<outcome, wire, job>>
               ELSE \E w \in WireEnds :
                    /\ wire' = [wire EXCEPT ![d] = w]
                    /\ job' = [job EXCEPT ![d].easy2 = Written(@, w)]
                    /\ epc' = [epc EXCEPT ![d] = "remove"]
                    /\ UNCHANGED <<outcome, polls>>
    /\ slept' = [slept EXCEPT ![d] = 0]
    /\ UNCHANGED <<impl, multi, pc, result, oneshot, waiters, queue,
                   wpc, cur, began, enq, late, timeout>>

\* multi.get_timeout() ... match ... if !timeout.is_zero() { sleep(200ms) }
GetTimeout(d) ==
    /\ epc[d] = "timeout"
    /\ \E q \in TimeoutQueries :
        LET t == TimeoutOf(q) IN
        IF t < 0
        THEN /\ outcome' = [outcome EXCEPT ![d] = Err(FromMultiError)]
             /\ epc' = [epc EXCEPT ![d] = "ret"]
             /\ UNCHANGED timeout
        ELSE /\ epc' = [epc EXCEPT ![d] = IF t # 0 THEN "sleep" ELSE "perform"]
             /\ timeout' = [timeout EXCEPT ![d] = t]
             /\ UNCHANGED outcome
    /\ UNCHANGED <<impl, multi, pc, result, oneshot, waiters, queue,
                   wpc, cur, job, polls, wire, began, enq, late,
                   active, slept>>

\* sleep(Duration::from_millis(200)) returns; `timeout` ends with the
\* loop body
Sleep(d) ==
    /\ epc[d] = "sleep"
    /\ epc' = [epc EXCEPT ![d] = "perform"]
    /\ slept' = [slept EXCEPT ![d] = SleepMillis]
    /\ timeout' = [timeout EXCEPT ![d] = 0]
    /\ UNCHANGED <<impl, multi, pc, result, oneshot, waiters, queue,
                   wpc, cur, job, polls, outcome, wire, began, enq, late,
                   active>>

\* multi.wait(&mut [], Duration::from_secs(1))?
Wait(d) ==
    /\ epc[d] = "wait"
    /\ \E r \in {"ok", "err"} :
        IF r = "err"
        THEN /\ outcome' = [outcome EXCEPT ![d] = Err(FromMultiError)]
             /\ epc' = [epc EXCEPT ![d] = "ret"]
        ELSE /\ epc' = [epc EXCEPT ![d] = "perform"]
             /\ UNCHANGED outcome
    /\ UNCHANGED <<impl, multi, pc, result, oneshot, waiters, queue,
                   wpc, cur, job, polls, wire, began, enq, late,
                   active, timeout, slept>>

\* multi.remove2(handle).map_err(Error::from)
Remove2Result(easy2, r) ==
    IF r = "err" THEN Err(FromMultiError) ELSE Ok(easy2)

Remove2(d) ==
    /\ epc[d] = "remove"
    /\ \E r \in {"ok", "err"} :
        outcome' = [outcome EXCEPT ![d] = Remove2Result(job[d].easy2, r)]
    /\ epc' = [epc EXCEPT ![d] = "ret"]
    /\ UNCHANGED <<impl, multi, pc, result, oneshot, waiters, queue,
                   wpc, cur, job, polls, wire, began, enq, late,
                   active, timeout, slept>>

\* oneshot_sender.send(response): delivered while the receiver lives, else
\* handed back in Err and dropped
SendReply(ch, response) ==
    IF ch.rx = "live" /\ ch.tx = "live"
    THEN [ch EXCEPT !.tx = "sent", !.val = response]
    ELSE [ch EXCEPT !.tx = "refused"]

\* faulty variant: a reply that cannot be delivered ends the worker loop
AfterReply_Unwrap(i, w, delivered) ==
    IF ~delivered THEN "terminated" ELSE IF i = "AsyncCurl" THEN "recv" ELSE w

\* faulty variant: the worker loop does not come back to recv() after a reply
AfterReply_Stuck(i, w, delivered) == w

\* the worker loop after `if let Err(res) = oneshot_sender.send(response)
\* { eprintln!(..) }`: the next iteration (AsyncCurl); the closure returns
\* and the worker is still joining (CurlActor)
AfterReply(i, w, delivered) == IF i = "AsyncCurl" THEN "recv" ELSE w

Reply(d) ==
    /\ epc[d] = "ret"
    /\ LET ch == ReplyChannelOf(job[d])
           sent == SendReply(oneshot[ch], outcome[d])
       IN /\ oneshot' = [oneshot EXCEPT ![ch] = sent]
          /\ wpc' = AfterReply(impl, wpc, sent.tx = "sent")
    /\ epc' = [epc EXCEPT ![d] = "finished"]
    /\ cur' = IF impl = "AsyncCurl" THEN 0 ELSE cur
    /\ job' = [job EXCEPT ![d] = NoRequest]
    /\ polls' = [polls EXCEPT ![d] = 0]
    /\ active' = [active EXCEPT ![d] = -1]
    /\ timeout' = [timeout EXCEPT ![d] = 0]
    /\ slept' = [slept EXCEPT ![d] = 0]
    /\ UNCHANGED <<impl, multi, pc, result, waiters, queue, outcome,
                   wire, began, enq, late>>

\* the task that a panic of the transfer code unwinds: the blocking thread
\* (CurlActor), or the worker task itself (AsyncCurl)
AfterPanic(i, w) == IF i = "AsyncCurl" THEN "terminated" ELSE w

\* the code executing the transfer panics: what it owns is dropped
Panic(d) ==
    /\ epc[d] = "perform"
    /\ wpc' = AfterPanic(impl, wpc)
    /\ LET dead == wpc' = "terminated"
           lost == {ReplyChannelOf(job[d])} \cup
                   (IF dead THEN {ReplyChannelOf(queue[i]) : i \in 1..Len(queue)}
                    ELSE {})
       IN /\ oneshot' = DropSenders(oneshot, lost)
          /\ queue' = IF dead THEN <<>> ELSE queue
          /\ cur' = IF dead THEN 0 ELSE cur
    /\ epc' = [epc EXCEPT ![d] = "panicked"]
    /\ job' = [job EXCEPT ![d] = NoRequest]
    /\ polls' = [polls EXCEPT ![d] = 0]
    /\ wire' = [wire EXCEPT ![d] = "aborted"]
    /\ active' = [active EXCEPT ![d] = -1]
    /\ timeout' = [timeout EXCEPT ![d] = 0]
    /\ slept' = [slept EXCEPT ![d] = 0]
    /\ UNCHANGED <<impl, multi, pc, result, waiters, outcome, began,
                   enq, late>>

\* ------------------------------------------------------------------ system
Caller(c) ==
    \/ SendRequest(c)
    \/ Enqueue(c)
    \/ SendClosed(c)
    \/ AwaitReply(c)

Worker == WorkerRecv \/ WorkerClose \/ WorkerJoin

Executor(d) ==
    \/ Begin(d)
    \/ EasyPerform(d)
    \/ MultiPerform(d)
    \/ GetTimeout(d)
    \/ Sleep(d)
    \/ Wait(d)
    \/ Remove2(d)
    \/ Reply(d)
    \/ Panic(d)

Next ==
    \/ \E c \in Callers : SendRequest(c)
    \/ \E c \in Callers : Enqueue(c)
    \/ \E c \in Callers : SendClosed(c)
    \/ \E c \in Callers : AwaitReply(c)
    \/ \E c \in Callers : DropFuture(c)
    \/ \E c \in Callers : DropHandle(c)
    \/ WorkerRecv
    \/ WorkerClose
    \/ WorkerJoin
    \/ \E d \in Callers : Begin(d)
    \/ \E d \in Callers : EasyPerform(d)
    \/ \E d \in Callers : MultiPerform(d)
    \/ \E d \in Callers : GetTimeout(d)
    \/ \E d \in Callers : Sleep(d)
    \/ \E d \in Callers : Wait(d)
    \/ \E d \in Callers : Remove2(d)
    \/ \E d \in Callers : Reply(d)
    \/ \E d \in Callers : Panic(d)

Spec == Init /\ [][Next]_vars

\* the runtime polls every woken task, the blocking pool runs every spawned
\* closure and the engine's calls return; callers are free to never call
\* send_request, to drop their futures and to keep or drop their handles
Progress(c) == Enqueue(c) \/ SendClosed(c) \/ AwaitReply(c)

FairSpec ==
    /\ Spec
    /\ WF_vars(Worker)
    /\ \A d \in Callers : WF_vars(Executor(d))
    /\ \A c \in Callers : WF_vars(Progress(c))
\* ================================================================== claims
Executing == {"start", "perform", "timeout", "sleep", "wait", "remove", "ret"}
Over == {"finished", "panicked"}
Pending == {"enqueue", "granted", "await"}
IsPrefix(s, t) == Len(s) <= Len(t) /\ \A i \in 1..Len(s) : s[i] = t[i]
\* send_request resolved to what came through the reply channel
Replied(c) ==
    /\ pc[c] = "done"
    /\ result[c] \notin {Err("QueueClosed"), Err("ReplyChannelClosed")}

\* C1: no cross-talk. What a caller's send_request resolves to through its
\* reply channel is the value perform_curl[_multi] returned for the
\* descriptor this caller submitted, after that transfer was over; an Ok
\* carries the caller's own descriptor, and when its transfer succeeded the
\* sink holds the response of its own transfer.
C1_NoCrossTalk ==
    \A c \in Callers :
        Replied(c) =>
            /\ epc[c] = "finished"
            /\ result[c] = outcome[c]
            /\ result[c].kind = "Ok" =>
                /\ result[c].easy2.id = c
                /\ wire[c] = "ok" => result[c].easy2.sink = ServerResponse(c)

\* two concurrent callers both got their own successful response
C1_Witness ==
    \E a, b \in Callers :
        /\ a # b
        /\ Replied(a) /\ result[a] = Ok([id |-> a, sink |-> ServerResponse(a)])
        /\ Replied(b) /\ result[b] = Ok([id |-> b, sink |-> ServerResponse(b)])

\* C3: mutual exclusion of transfers. At most one descriptor of the
\* Dispatcher is being executed, and while the worker loop is at recv()
\* (free to dequeue) or has ended, no transfer is in execution.
C3_OneTransferAtATime ==
    /\ Cardinality({d \in Callers : epc[d] \in Executing}) <= 1
    /\ wpc \in {"recv", "terminated"} => \A d \in Callers : epc[d] \notin Executing
    /\ \A d \in Callers : epc[d] \in Executing => cur = d

\* a transfer runs while one envelope is queued and a third caller waits
C3_Witness ==
    \E d \in Callers :
        /\ epc[d] = "perform"
        /\ Len(queue) = 1
        /\ waiters # <<>>

\* C4: FIFO execution. Transfers begin in the order in which their
\* envelopes were enqueued, and when a transfer has begun every transfer
\* that began before it is over.
C4_FifoExecution ==
    /\ IsPrefix(began, enq)
    /\ \A i \in 1..Len(began) : \A j \in 1..Len(began) :
           i < j => epc[began[i]] \in Over

\* three jobs were executed one after the other
C4_Witness ==
    /\ Len(began) = 3
    /\ \A i \in 1..3 : epc[began[i]] \in Over
\* C2: liveness. Under fair scheduling every send_request that is suspended
\* at the enqueue step or at the reply-await step eventually resolves to an
\* Ok or an Err value, unless its caller stops awaiting it.
C2_EveryCallResolves ==
    \A c \in Callers :
        (pc[c] \in Pending) ~>
            (pc[c] = "dropped" \/ (pc[c] = "done" /\ result[c].kind \in {"Ok", "Err"}))

\* three concurrent calls, none abandoned, all resolved
C2_Witness ==
    /\ \A c \in Callers : pc[c] = "done" /\ result[c].kind \in {"Ok", "Err"}
    /\ Len(enq) = 3
\* C5: a transfer that fails inside the engine makes the caller's
\* send_request resolve to an EngineError under every execution strategy.
C5_FailedTransferIsEngineError ==
    \A c \in Callers :
        (wire[c] = "failed" /\ pc[c] = "done") => result[c] = Err("EngineError")

\* C6: the worker loop never terminates because of a single job's failure:
\* after a job whose execution returned an error or terminated abnormally,
\* the worker loop is still running as long as a handle exists.
C6_WorkerSurvivesFailedJob ==
    \A d \in Callers :
        (epc[d] = "panicked" \/ (epc[d] = "finished" /\ outcome[d].kind = "Err"))
            => (wpc # "terminated" \/ Holders = {})

\* the reply of job d is sent to a receiver that is gone
RefusedReply(d) ==
    /\ epc[d] = "ret"
    /\ epc'[d] = "finished"
    /\ oneshot[job[d].oneshot_sender].rx # "live"

\* C7: a reply that fails because the caller dropped its future is only
\* logged. The step leaves the worker loop where a delivered reply leaves
\* it (next iteration for AsyncCurl, closure returned and join pending for
\* CurlActor), touches no queued envelope, no suspended sender and no other
\* job, and under fair scheduling the envelope then at the head of the
\* queue is dequeued and executed.
C7_RefusedReplyOnlyLogged ==
    /\ [][\A d \in Callers :
            RefusedReply(d) =>
                /\ wpc' = (IF impl = "AsyncCurl" THEN "recv" ELSE "join")
                /\ queue' = queue
                /\ waiters' = waiters
                /\ pc' = pc
                /\ result' = result
                /\ \A e \in Callers \ {d} :
                       epc'[e] = epc[e] /\ job'[e] = job[e] /\ oneshot'[e] = oneshot[e]
         ]_vars
    /\ \A d \in Callers :
         (/\ \E c \in Callers : oneshot[c].tx = "refused"
          /\ wpc # "terminated"
          /\ queue # <<>>
          /\ Head(queue).easy2.id = d
          /\ \A e \in Callers : epc[e] \notin Executing)
            ~> (epc[d] \in Executing \cup Over)

\* after a refused reply a later job was executed and its caller got its
\* own successful response
C7_Witness ==
    \E c, d \in Callers :
        /\ c < d
        /\ oneshot[c].tx = "refused"
        /\ Replied(d)
        /\ result[d] = Ok([id |-> d, sink |-> ServerResponse(d)])

\* C8: no cancellation. When the worker loop has ended, every admitted job
\* whose caller abandoned the reply has been executed to completion.
C8_AbandonedJobStillExecuted ==
    \A d \in Callers :
        (d \in SeqToSet(enq) /\ pc[d] = "dropped" /\ wpc = "terminated")
            => epc[d] \in Over

\* C9: a send_request attempted after the worker loop has terminated
\* resolves at once to QueueClosed; its envelope is never enqueued and no
\* transfer is executed for its descriptor.
C9_LateCallIsQueueClosed ==
    \A c \in late :
        /\ pc[c] = "done"
        /\ result[c] = Err("QueueClosed")
        /\ epc[c] = "idle"
        /\ c \notin SeqToSet(enq)
        /\ c \notin SeqToSet(began)

\* a call made after the worker loop ended while a handle was still alive
C9_Witness ==
    \E c \in late : wpc = "terminated" /\ pc[c] = "done" /\ epc[c] = "idle"

\* C10: when the sending half of a job's reply channel is dropped without
\* a value, the caller awaiting that reply eventually resolves, and to the
\* ReplyChannelClosed error, unless it stops awaiting.
C10_DroppedSenderIsReplyChannelClosed ==
    \A c \in Callers :
        (pc[c] = "await" /\ oneshot[c].tx = "dropped") ~>
            (pc[c] = "dropped" \/
             (pc[c] = "done" /\ result[c] = Err("ReplyChannelClosed")))

\* the blocking thread died before sending and the caller got the error
C10_Witness ==
    \E c \in Callers :
        /\ impl = "CurlActor"
        /\ epc[c] = "panicked"
        /\ pc[c] = "done"
        /\ result[c] = Err("ReplyChannelClosed")

\* C11: worker lifecycle. As long as at least one handle of the Dispatcher
\* (the original or a clone) exists the worker loop has not terminated,
\* whatever happened to the jobs in the meantime; once every handle has
\* been dropped the worker loop eventually terminates.
C11_WorkerLifecycle ==
    /\ [](Holders # {} => wpc # "terminated")
    /\ (Holders = {}) ~> (wpc = "terminated")

\* C12: envelope invariant. Every send_request creates one envelope with a
\* reply channel of its own (no call is enqueued twice and every queued
\* envelope carries the sender of its own call's channel), and for every
\* envelope the worker dequeued and whose handling is over exactly one
\* reply value was sent through its channel: a reply is sent only through
\* a sender that has sent nothing yet (never more than one), and a job that
\* is over, failed or abnormally terminated included, has sent its reply
\* (never zero).
C12_ExactlyOneReplyPerEnvelope ==
    /\ [](/\ \A i, j \in 1..Len(enq) : i # j => enq[i] # enq[j]
          /\ \A i \in 1..Len(queue) :
                 /\ queue[i].oneshot_sender = queue[i].easy2.id
                 /\ oneshot[queue[i].oneshot_sender].tx = "live"
          /\ \A d \in Callers :
                 epc[d] \in Over => oneshot[d].tx \in {"sent", "refused"})
    /\ [][\A d \in Callers :
            (epc[d] = "ret" /\ epc'[d] = "finished")
                => /\ oneshot[job[d].oneshot_sender].tx = "live"
                   /\ oneshot'[job[d].oneshot_sender].tx \in {"sent", "refused"}
         ]_vars

\* the configurations a Dispatcher is built in: <<strategy, feature "multi">>
Strategies ==
    {<<"CurlActor", FALSE>>, <<"CurlActor", TRUE>>, <<"AsyncCurl", TRUE>>}
\* the kind of outcome a caller sees: success, or the error of the taxonomy
Kind(r) == IF r.kind = "Ok" THEN "Ok" ELSE r.err
\* what the strategy's code returns for a transfer that ended as b on the
\* wire, every call into the multi stack succeeding
Returned(m, easy2, b) ==
    IF m THEN Remove2Result(Written(easy2, b), "ok") ELSE EasyResult(easy2, b)
\* what the caller of a job with engine behaviour b receives
Received(m, easy2, b) ==
    IF b = "aborted" THEN ReplyOf(DropTx(OneshotChannel))
    ELSE ReplyOf(SendReply(OneshotChannel, Returned(m, easy2, b)))
\* whether the worker loop of strategy i goes on after such a job
Usable(i, b) ==
    IF b = "aborted" THEN AfterPanic(i, AfterDequeue(i)) # "terminated"
    ELSE AfterReply(i, AfterDequeue(i), TRUE) # "terminated"
\* the job's call resolved after an execution in which the engine behaved
\* in one of the three ways of the claim
Compared(c) ==
    /\ pc[c] = "done"
    /\ epc[c] \in Over
    /\ wire[c] # "none"
    /\ result[c] = Received(multi, NewEasy2(c), wire[c])

\* C13: the strategies are interchangeable. What this Dispatcher delivered
\* to the caller of a job whose engine behaviour was success, engine
\* failure or abnormal termination is the kind of outcome every strategy
\* delivers for that behaviour, and while a handle exists this Dispatcher
\* is usable exactly if every strategy is after the same behaviours.
C13_StrategiesInterchangeable ==
    \A s \in Strategies :
        /\ \A c \in Callers :
               Compared(c) =>
                   Kind(result[c]) = Kind(Received(s[2], NewEasy2(c), wire[c]))
        /\ Holders # {} =>
               ((wpc # "terminated") <=>
                    \A d \in Callers : wire[d] # "none" => Usable(s[1], wire[d]))

\* C14: in CurlActor, when the blocking thread panics while executing a
\* job, the join failure reaches the caller of that job: its send_request
\* resolves to the ThreadJoinError of the taxonomy.
C14_JoinFailureReachesCaller ==
    \A c \in Callers :
        (impl = "CurlActor" /\ epc[c] = "panicked" /\ pc[c] = "done")
            => result[c] = Err("ThreadJoinError")

\* C15: polling loop of perform_curl under feature "multi". An advance
\* that reports a non-zero count is followed by the timeout query and
\* another advance, one that reports zero by the deregistration; the
\* timeout query leads to a wait (non-zero timeout), to the next advance
\* with no wait (zero timeout, "call perform again" included) or ends the
\* run with an EngineError; the wait lasts the timeout (the engine's
\* suggestion or the 2 s default); an error of the advance ends the run
\* with an EngineError; at count zero the handle is deregistered and the
\* descriptor returned.
C15_IsolatedPollingLoop ==
    [][\A d \in Callers :
        (impl = "CurlActor" /\ multi) =>
            /\ (epc[d] = "perform" /\ epc'[d] \in {"timeout", "remove"})
                   => (epc'[d] = "timeout" <=> active'[d] # 0)
            /\ (epc[d] = "timeout" /\ epc'[d] # "timeout")
                   => \/ epc'[d] = "sleep" /\ timeout'[d] > 0
                      \/ epc'[d] = "perform" /\ timeout'[d] = 0 /\ slept'[d] = 0
                      \/ epc'[d] = "ret" /\ outcome'[d] = Err("EngineError")
            /\ (epc[d] = "sleep" /\ epc'[d] = "perform")
                   => slept'[d] = timeout[d]
            /\ (epc[d] = "perform" /\ epc'[d] = "ret")
                   => outcome'[d] = Err("EngineError")
            /\ (epc[d] = "remove" /\ epc'[d] = "ret")
                   => /\ active[d] = 0
                      /\ outcome'[d] \in {Ok(job[d].easy2), Err("EngineError")}
      ]_vars

\* an advance of job d's loop returned a count
Advanced(d) ==
    /\ epc[d] = "perform"
    /\ polls'[d] = polls[d] + 1 \/ epc'[d] = "remove"

\* C16: perform_curl_multi (AsyncCurl). After registering the descriptor
\* the loop advances exactly while the reported count is greater than
\* zero, with one wait between consecutive advances; at count zero the
\* descriptor is deregistered and returned; an error of register, advance,
\* wait or deregister ends the run with an EngineError; the run never
\* returns a success while the count is positive; and with an engine whose
\* count reaches zero every run that started comes to its end.
C16_CooperativePollingLoop ==
    /\ [][\A d \in Callers :
            impl = "AsyncCurl" =>
                /\ (epc[d] = "start" /\ epc'[d] # "start")
                       => \/ epc'[d] = "perform"
                          \/ epc'[d] = "ret" /\ outcome'[d] = Err("EngineError")
                /\ Advanced(d)
                       => IF active'[d] > 0
                          THEN epc'[d] = "wait"
                          ELSE epc'[d] = "remove" /\ active'[d] = 0
                /\ (epc[d] = "wait" /\ epc'[d] # "wait")
                       => \/ epc'[d] = "perform"
                          \/ epc'[d] = "ret" /\ outcome'[d] = Err("EngineError")
                /\ (epc[d] = "perform" /\ epc'[d] = "ret")
                       => outcome'[d] = Err("EngineError")
                /\ (epc[d] = "remove" /\ epc'[d] # "remove")
                       => /\ epc'[d] = "ret"
                          /\ outcome'[d] \in {Ok(job[d].easy2), Err("EngineError")}
         ]_vars
    /\ [](\A d \in Callers :
            (impl = "AsyncCurl" /\ epc[d] = "ret" /\ outcome[d].kind = "Ok")
                => active[d] = 0)
    /\ \A d \in Callers :
         (impl = "AsyncCurl" /\ epc[d] = "start") ~> (epc[d] \in Over)

\* a run of perform_curl_multi that waited between two advances and
\* returned the descriptor
C16_Witness ==
    \E d \in Callers :
        /\ impl = "AsyncCurl"
        /\ epc[d] = "ret"
        /\ polls[d] > 0
        /\ active[d] = 0
        /\ outcome[d].kind = "Ok"

\* the jobs that are admitted and unresolved: queued, or in execution
Queued == {queue[i].easy2.id : i \in 1..Len(queue)}
Unresolved == Queued \cup {d \in Callers : epc[d] \in Executing}

\* C17: backpressure. The request queue never holds more than one
\* envelope; at most two jobs are admitted and unresolved, one in
\* execution and one queued; every other call that has no reply yet is
\* suspended at the enqueue step; an envelope is enqueued only into an
\* empty queue, and a sender suspended on a full queue stays suspended
\* while the queued envelope is not dequeued.
C17_Backpressure ==
    /\ [](/\ Len(queue) <= 1
          /\ Cardinality(Unresolved) <= 2
          /\ Cardinality(Unresolved \ Queued) <= 1
          /\ \A c \in Callers :
                 (pc[c] \in Pending /\ c \notin Unresolved /\ oneshot[c].tx = "live")
                     => pc[c] \in {"enqueue", "granted"})
    /\ [][\A c \in Callers :
            /\ (c \notin SeqToSet(enq) /\ c \in SeqToSet(enq')) => queue = <<>>
            /\ (pc[c] = "enqueue" /\ queue # <<>> /\ queue' = queue)
                   => pc'[c] \notin {"granted", "await"}
         ]_vars

\* one job in execution, one queued, and a third caller suspended at the
\* enqueue step
C17_Witness ==
    /\ Len(queue) = Capacity
    /\ Cardinality(Unresolved) = 2
    /\ \E c \in Callers : pc[c] = "enqueue" /\ c \notin Unresolved

\* the places that hold descriptor d: the caller (before the envelope is
\* enqueued, or in the Ok it got back), the request queue, the code
\* executing a job (the descriptor it was given, or the Ok it is about to
\* send), a reply channel (the Ok sent and not yet received)
HeldBy(d) ==
    {<<"caller", c>> : c \in {c \in Callers :
        \/ c = d /\ pc[c] \in {"idle", "enqueue", "granted"}
        \/ result[c].kind = "Ok" /\ result[c].easy2.id = d}}
    \cup {<<"queue", i>> : i \in {i \in 1..Len(queue) : queue[i].easy2.id = d}}
    \cup {<<"strategy", e>> : e \in {e \in Callers :
        \/ /\ epc[e] \in Executing \ {"ret"}
           /\ job[e].kind = "req" /\ job[e].easy2.id = d
        \/ /\ epc[e] = "ret"
           /\ outcome[e].kind = "Ok" /\ outcome[e].easy2.id = d}}
    \cup {<<"reply", c>> : c \in {c \in Callers :
        oneshot[c].val.kind = "Ok" /\ oneshot[c].val.easy2.id = d}}
\* the kind of place holding d ("none" once the descriptor is destroyed)
Place(d) == IF HeldBy(d) = {} THEN "none" ELSE (CHOOSE h \in HeldBy(d) : TRUE)[1]
Moves ==
    {<<"caller", "queue">>, <<"queue", "strategy">>,
     <<"strategy", "reply">>, <<"reply", "caller">>}

\* C18: single-holder ownership. Every descriptor is held by at most one
\* place, by exactly one while its call is pending and nothing has failed,
\* and only by the places of its own job (its caller, the queue, the code
\* executing its job, its own reply channel); it moves caller -> queue ->
\* strategy -> reply channel -> caller, or is destroyed.
C18_SingleHolder ==
    /\ [](\A d \in Callers :
            /\ Cardinality(HeldBy(d)) <= 1
            /\ HeldBy(d) \subseteq {<<"caller", d>>, <<"queue", 1>>,
                                    <<"strategy", d>>, <<"reply", d>>}
            /\ (pc[d] \in Pending /\ oneshot[d].tx = "live" /\ epc[d] # "ret")
                   => Cardinality(HeldBy(d)) = 1)
    /\ [][\A d \in Callers :
            Place(d)' # Place(d) =>
                (Place(d)' = "none" \/ <<Place(d), Place(d)'>> \in Moves)
         ]_vars

\* one descriptor is back at its caller while another is being executed
\* and a third sits in the queue
C18_Witness ==
    \E d, e, f \in Callers :
        /\ pc[d] = "done" /\ HeldBy(d) = {<<"caller", d>>}
        /\ HeldBy(e) = {<<"strategy", e>>}
        /\ HeldBy(f) = {<<"queue", 1>>}

\* the caller of d gave up before its envelope was enqueued
GaveUpBeforeEnqueue(d) == pc[d] = "dropped" /\ d \notin SeqToSet(enq)

\* C19: at-most-once execution. A transfer is executed only for a
\* descriptor whose envelope was enqueued and dequeued, and at most once;
\* before the first submission nothing is executed; a submission whose
\* caller gave up while suspended at the enqueue step is never enqueued
\* afterwards and never executed.
C19_AtMostOnceExecution ==
    /\ [](/\ \A i, j \in 1..Len(began) : i # j => began[i] # began[j]
          /\ SeqToSet(began) \subseteq SeqToSet(enq)
          /\ \A d \in Callers :
                 /\ epc[d] # "idle" => d \in SeqToSet(enq) \ Queued
                 /\ GaveUpBeforeEnqueue(d) => epc[d] = "idle" /\ wire[d] = "none"
          /\ enq = <<>> =>
                 /\ began = <<>>
                 /\ \A d \in Callers : epc[d] = "idle" /\ wire[d] = "none")
    /\ [][\A d \in Callers : GaveUpBeforeEnqueue(d) => GaveUpBeforeEnqueue(d)']_vars

\* a caller gave up at the enqueue step; the two jobs admitted before it
\* were executed and the worker loop ended without executing its job
C19_Witness ==
    \E d \in Callers :
        /\ GaveUpBeforeEnqueue(d)
        /\ Len(began) = 2
        /\ wpc = "terminated"
        /\ epc[d] = "idle"

\* C20: drain before exit. When every handle has been dropped while
\* envelopes were still queued or a transfer was still running, the worker
\* loop ends only on an empty queue with no transfer in execution, every
\* admitted job has then been executed, and each admitted job is
\* eventually executed to its end.
C20_DrainBeforeExit ==
    /\ [](Holders = {} /\ wpc = "terminated"
            => \A d \in SeqToSet(enq) : epc[d] \in Over)
    /\ [][(Holders = {} /\ wpc # "terminated" /\ wpc' = "terminated")
            => (queue = <<>> /\ \A d \in Callers : epc'[d] \notin Executing)
         ]_vars
    /\ \A d \in Callers :
         (Holders = {} /\ d \in Unresolved) ~> (epc[d] \in Over)
====
